---- MODULE Spec2Model ----
(***************************************************************************)
(* A model of matrix-oxide's dense matrix container.                       *)
(*                                                                         *)
(* src/src/lib.rs holds the compile-time-shaped Matrix<T, R, C>: a         *)
(* row-major Vec<T> whose shape is carried by the type parameters R and C. *)
(* The element type T is modelled as i8, one of the bounded integer types  *)
(* of src/src/numbers.rs; an arithmetic overflow either traps (a build     *)
(* with overflow checks) or wraps (a build without them).                  *)
(***************************************************************************)
EXTENDS Integers, Sequences, FiniteSets, TLC

\* ------------------------------------------------------------- bounds
\* Largest row count and largest column count of the shapes explored.
MaxRows == 2
MaxCols == 3
\* Largest number of calls in one run that write element values (set, the
\* fill loop, add, sub, scalar_multiply).
MaxSteps == 2

\* ------------------------------------------------------- element type
\* Width in bits of the element type T = i8.
TBits == 8
MinT == -(2 ^ (TBits - 1))
MaxT == 2 ^ (TBits - 1) - 1
\* The value an overflowing operation yields in a build that traps.
Trap == MaxT + 1
\* The values handed to set, and the scalars handed to scalar_multiply.
Vals == {MaxT}
Scalars == {-1, MaxT}

VARIABLES
    R,                \* the type parameter R: the row count
    C,                \* the type parameter C: the column count
    overflow_checks,  \* TRUE: integer overflow panics; FALSE: it wraps
    m,                \* the matrix the program holds
    last,             \* the last call: its arguments and what it returned
    steps,            \* the number of calls so far that wrote element values
    dyn               \* the last call on a runtime-shaped Matrix<T>

vars == <<R, C, overflow_checks, m, last, steps, dyn>>

\* The binding after its matrix was dropped by a panic's unwinding.
Moved == [live |-> FALSE, data |-> <<>>]
Live(data) == [live |-> TRUE, data |-> data]

Min(x, y) == IF x <= y THEN x ELSE y

\* T::default() of an integer type.
DefaultT == 0

\* Two's complement wrap-around of an integer into T's range.
WrapT(x) == ((x - MinT) % (2 ^ TBits)) + MinT
InT(x) == MinT <= x /\ x <= MaxT
\* T's +, - and *: the element type's overflow policy.
ArithT(x) == IF InT(x) THEN x ELSE IF overflow_checks THEN Trap ELSE WrapT(x)
AddT(x, y) == ArithT(x + y)
SubT(x, y) == ArithT(x - y)
MulT(x, y) == ArithT(x * y)

\* What a call returns: a kind and, for a value, its elements.
Ret(kind, val) == [kind |-> kind, val |-> val]
None == Ret("None", <<>>)
Some(val) == Ret("Some", val)
Panic == Ret("panic", <<>>)
Matrix(data) == Ret("Matrix", data)

\* self.data[i] of a Vec: in bounds (0-indexed).
InBuf(data, i) == 0 <= i /\ i < Len(data)
At(data, i) == data[i + 1]

RECURSIVE Flatten(_)
Flatten(rows) == IF rows = <<>> THEN <<>> ELSE Head(rows) \o Flatten(Tail(rows))

\* ------------------------------------------------------------- Matrix
\* Matrix::new: vec![T::default(); R * C].
new == [i \in 1 .. R * C |-> DefaultT]

\* get with its bounds check off by one: row <= R && col <= C.
get_inclusive(data, row, col) ==
    IF row <= R /\ col <= C
    THEN IF InBuf(data, col + row * C) THEN Some(<<At(data, col + row * C)>>) ELSE Panic
    ELSE None

\* Matrix::get.
get(data, row, col) ==
    IF row < R /\ col < C
    THEN IF InBuf(data, col + row * C) THEN Some(<<At(data, col + row * C)>>) ELSE Panic
    ELSE None

\* get_diagonal reading the buffer directly, without get's bounds check:
\* (0..C).map(|k| self.data[k * C + k].clone()).
get_diagonal_unchecked(data) ==
    IF \E k \in 0 .. C - 1 : ~InBuf(data, k * C + k) THEN Panic
    ELSE Ret("Vec", [k \in 1 .. C |-> At(data, (k - 1) * C + (k - 1))])

\* Matrix::get_diagonal: (0..C).filter_map(|k| self.get(k, k).cloned()).
RECURSIVE filter_map_diagonal(_, _)
filter_map_diagonal(data, k) ==
    IF k >= C THEN Some(<<>>)
    ELSE LET cell == get(data, k, k)
             rest == filter_map_diagonal(data, k + 1)
         IN  IF cell.kind = "panic" \/ rest.kind = "panic" THEN Panic
             ELSE IF cell.kind = "Some" THEN Some(cell.val \o rest.val)
             ELSE rest

get_diagonal(data) ==
    LET d == filter_map_diagonal(data, 0)
    IN  IF d.kind = "panic" THEN Panic ELSE Ret("Vec", d.val)

\* get_mut with row and column swapped in the linear index: row + col * C.
get_mut_swapped(data, row, col) ==
    IF row < R /\ col < C
    THEN IF InBuf(data, row + col * C) THEN Some(<<row + col * C>>) ELSE Panic
    ELSE None

\* get_mut with its bounds check off by one: row <= R && col <= C.
get_mut_inclusive(data, row, col) ==
    IF row <= R /\ col <= C
    THEN IF InBuf(data, col + row * C) THEN Some(<<col + row * C>>) ELSE Panic
    ELSE None

\* Matrix::get_mut: the cell handed out is named by its linear index.
get_mut(data, row, col) ==
    IF row < R /\ col < C
    THEN IF InBuf(data, col + row * C) THEN Some(<<col + row * C>>) ELSE Panic
    ELSE None

\* Matrix::set: what it returns and the buffer it leaves.
set(data, row, column, value) ==
    LET cell == get_mut(data, row, column)
    IN  IF cell.kind = "Some"
        THEN [ret |-> Ret("true", <<>>), data |-> [data EXCEPT ![cell.val[1] + 1] = value]]
        ELSE IF cell.kind = "panic"
        THEN [ret |-> Panic, data |-> data]
        ELSE [ret |-> Ret("false", <<>>), data |-> data]

\* try_get_column with its bounds check against the row count: column >= R.
try_get_column_row_bound(data, column) ==
    IF column >= R THEN None
    ELSE IF \E row \in 0 .. R - 1 : ~InBuf(data, row * C + column) THEN Panic
    ELSE Some([k \in 1 .. R |-> At(data, (k - 1) * C + column)])

\* Matrix::try_get_column.
try_get_column(data, column) ==
    IF column >= C THEN None
    ELSE IF \E row \in 0 .. R - 1 : ~InBuf(data, row * C + column) THEN Panic
    ELSE Some([k \in 1 .. R |-> At(data, (k - 1) * C + column)])

\* Matrix::try_get_row.
try_get_row(data, row) ==
    IF row >= R THEN None
    ELSE IF \E col \in 0 .. C - 1 : ~InBuf(data, row * C + col) THEN Panic
    ELSE Some([k \in 1 .. C |-> At(data, row * C + (k - 1))])

\* transpose with its column range one short: (0..C - 1).
transpose_off_by_one(data) ==
    IF \E col \in 0 .. C - 2, row \in 0 .. R - 1 : ~InBuf(data, row * C + col)
    THEN Panic
    ELSE Matrix(Flatten([c \in 1 .. C - 1 |->
                    [r \in 1 .. R |-> At(data, (r - 1) * C + (c - 1))]]))

\* Matrix::transpose: for col in 0..C, for row in 0..R, data[row * C + col];
\* the value returned is a Matrix<T, R, C>.
transpose(data) ==
    IF \E col \in 0 .. C - 1, row \in 0 .. R - 1 : ~InBuf(data, row * C + col)
    THEN Panic
    ELSE Matrix(Flatten([c \in 1 .. C |->
                    [r \in 1 .. R |-> At(data, (r - 1) * C + (c - 1))]]))

\* The shape get, set and the row and column accessors of the transposed
\* matrix use: the type parameters of transpose's return type.
transpose_shape == <<R, C>>

\* Iterator::zip: as long as the shorter of the two.
zip(xs, ys) == [k \in 1 .. Min(Len(xs), Len(ys)) |-> <<xs[k], ys[k]>>]

\* The closure of add, |(a, b)| a + b, or of sub, |(a, b)| a - b.
Combine(op, x, y) == IF op = "add" THEN AddT(x, y) ELSE SubT(x, y)

\* The element-wise combination add and sub share, but for their closure.
\* .expect() panics on a miss; an overflow trap panics.
Elementwise(op, self, rhs) ==
    LET rows == [r \in 1 .. R |->
                    LET row_a == try_get_row(self, r - 1)
                        row_b == try_get_row(rhs, r - 1)
                    IN  IF row_a.kind = "Some" /\ row_b.kind = "Some"
                        THEN LET z == zip(row_a.val, row_b.val)
                             IN  Some([k \in 1 .. Len(z) |-> Combine(op, z[k][1], z[k][2])])
                        ELSE Panic]
    IN  IF \E r \in 1 .. R : rows[r].kind = "panic" THEN Panic
        ELSE LET data == Flatten([r \in 1 .. R |-> rows[r].val])
             IN  IF \E i \in 1 .. Len(data) : data[i] = Trap THEN Panic
                 ELSE Matrix(data)

\* Add::add.
add(self, rhs) == Elementwise("add", self, rhs)

\* sub with its operands the wrong way round: b - a.
sub_swapped(self, rhs) == Elementwise("sub", rhs, self)

\* Sub::sub.
sub(self, rhs) == Elementwise("sub", self, rhs)

\* scalar_multiply with the wrong operator in its closure: value + scalar.
scalar_add(data, scalar) ==
    LET out == [i \in 1 .. Len(data) |-> AddT(data[i], scalar)]
    IN  IF \E i \in 1 .. Len(out) : out[i] = Trap THEN Panic ELSE Matrix(out)


\* Matrix::scalar_multiply.
scalar_multiply(data, scalar) ==
    LET out == [i \in 1 .. Len(data) |-> MulT(data[i], scalar)]
    IN  IF \E i \in 1 .. Len(out) : out[i] = Trap THEN Panic ELSE Matrix(out)

\* Matrix::trace: the fold of + over the diagonal from T::default().
RECURSIVE fold_add(_, _)
fold_add(acc, xs) ==
    IF xs = <<>> \/ acc = Trap THEN acc ELSE fold_add(AddT(acc, Head(xs)), Tail(xs))

trace(data) ==
    LET d == get_diagonal(data)
    IN  IF d.kind = "panic" THEN Panic
        ELSE LET t == fold_add(DefaultT, d.val)
             IN  IF t = Trap THEN Panic ELSE Ret("T", <<t>>)

\* (a + b).scalar_multiply(scalar): a panic in the sum ends the evaluation.
scale_of_sum(a, b, scalar) ==
    LET sum == add(a, b)
    IN  IF sum.kind = "panic" THEN Panic ELSE scalar_multiply(sum.val, scalar)

\* a.scalar_multiply(scalar) + b.scalar_multiply(scalar): a panic in either
\* product ends the evaluation.
sum_of_scaled(a, b, scalar) ==
    LET pa == scalar_multiply(a, scalar)
        pb == scalar_multiply(b, scalar)
    IN  IF pa.kind = "panic" \/ pb.kind = "panic" THEN Panic
        ELSE add(pa.val, pb.val)

\* tests::transpose_works_correctly: a new() matrix whose buffer is then
\* filled with data[i] = i.
fill == [i \in 1 .. Len(new) |-> i - 1]

\* A buffer of R * C copies of one value, as a struct literal spells it
\* (tests::test_matrix_addition builds its operands this way).
splat(v) == [i \in 1 .. R * C |-> v]

\* The right-hand operands handed to add and sub: well-formed R x C matrices.
Operands == {new, fill} \cup {splat(v) : v \in Vals}

\* A struct literal Matrix::<T, R, C> { data: vec![1, 2, .., n] }: data is a
\* pub field, so its length is whatever the literal spells.
iota(n) == [i \in 1 .. n |-> i]
Literals == {iota(n) : n \in 0 .. MaxRows * MaxCols + 1}

\* ------------------------------------------- the runtime-shaped Matrix<T>
\* The Matrix<T> that src/src/activation.rs and the benchmarks use carries
\* its shape in the fields row_size and col_size.
DynMatrix(row_size, col_size, data) ==
    [row_size |-> row_size, col_size |-> col_size, data |-> data]

NoDyn == DynMatrix(0, 0, <<>>)

\* What a call on a Matrix<T> returns: a kind and, for a matrix, the matrix.
DynRet(kind, matrix) == [kind |-> kind, matrix |-> matrix]
DynPanic == DynRet("panic", NoDyn)
ShapeMismatch == DynRet("ShapeMismatch", NoDyn)

\* The buffers handed to the calls on a Matrix<T>, n elements each.
DynData(n) ==
    {[i \in 1 .. n |-> 0], iota(n), [i \in 1 .. n |-> -i], [i \in 1 .. n |-> MaxT]}

\* The well-formed matrices handed to the calls on a Matrix<T>.
DynMatrices ==
    UNION {{DynMatrix(r, c, d) : d \in DynData(r * c)} :
               r \in 0 .. MaxRows, c \in 0 .. MaxCols}

\* Element (i, j) of a Matrix<T>, 0-indexed, row-major.
Elem(a, i, j) == At(a.data, i * a.col_size + j)

\* The accumulation of out[i, j]: k ascending from k0, acc + a[i, k] * b[k, j].
RECURSIVE accumulate(_, _, _, _, _, _)
accumulate(a, b, i, j, k, acc) ==
    IF k >= a.col_size \/ acc = Trap THEN acc
    ELSE LET p == MulT(Elem(a, i, k), Elem(b, k, j))
         IN  IF p = Trap THEN Trap
             ELSE accumulate(a, b, i, j, k + 1, AddT(acc, p))

\* The triple loop from index k0 of the inner loop, after the shape check.
multiply_from(a, b, k0) ==
    IF a.col_size # b.row_size THEN ShapeMismatch
    ELSE LET data == [x \in 1 .. a.row_size * b.col_size |->
                         accumulate(a, b, (x - 1) \div b.col_size,
                                    (x - 1) % b.col_size, k0, DefaultT)]
         IN  IF \E x \in 1 .. Len(data) : data[x] = Trap THEN DynPanic
             ELSE DynRet("Matrix", DynMatrix(a.row_size, b.col_size, data))

\* multiply with its inner loop starting one late: k in 1..a.cols.
multiply_skip_first(a, b) == multiply_from(a, b, 1)

\* Matrix::multiply.
multiply(a, b) == multiply_from(a, b, 0)

\* ------------------------------------------------- double precision
\* inverse works on doubles.  A double is modelled by the rational it stands
\* for, <<numerator, denominator>> in lowest terms with a positive
\* denominator: the elimination is followed exactly, without rounding.
RECURSIVE Gcd(_, _)
Gcd(x, y) == IF y = 0 THEN x ELSE Gcd(y, x % y)

Abs(x) == IF x < 0 THEN -x ELSE x

Q(n, d) ==
    LET g == Gcd(Abs(n), Abs(d))
        sgn == IF d < 0 THEN -1 ELSE 1
    IN  <<(sgn * n) \div g, (sgn * d) \div g>>

QZero == <<0, 1>>
QOne == <<1, 1>>
QAdd(x, y) == Q(x[1] * y[2] + y[1] * x[2], x[2] * y[2])
QSub(x, y) == Q(x[1] * y[2] - y[1] * x[2], x[2] * y[2])
QMul(x, y) == Q(x[1] * y[1], x[2] * y[2])
QDiv(x, y) == Q(x[1] * y[2], x[2] * y[1])
QAbs(x) == <<Abs(x[1]), x[2]>>
QLess(x, y) == x[1] * y[2] < y[1] * x[2]

\* AsF64::as_f64 of an integer.
as_f64(x) == <<x, 1>>

\* The square matrices handed to inverse, and their element values.
InvVals == {-2, 0, 1}
InvMatrices ==
    UNION {{DynMatrix(n, n, d) : d \in [1 .. n * n -> InvVals]} :
               n \in 1 .. Min(MaxRows, MaxCols)}

\* A Vec built from an iterator: the same sequence, its elements computed
\* once, when it is built.
collect(xs) == xs \o <<>>

\* Step 1: the working copy [A | I], n rows of 2n doubles.
augmented(a) ==
    LET n == a.row_size
    IN  collect([i \in 1 .. n |->
            collect([j \in 1 .. 2 * n |->
                IF j <= n THEN as_f64(Elem(a, i - 1, j - 1))
                ELSE IF j - n = i THEN QOne ELSE QZero])])

\* Step 2a: the first row p in k .. n that maximises |W[p, k]|.
pivot_row(W, k, n) ==
    CHOOSE p \in k .. n :
        /\ \A q \in k .. n : ~QLess(QAbs(W[p][k]), QAbs(W[q][k]))
        /\ \A q \in k .. p - 1 : QLess(QAbs(W[q][k]), QAbs(W[p][k]))

\* Steps 2b to 2d for pivot column k with pivot row p: swap rows k and p,
\* divide row k by the pivot, subtract W[r, k] times row k from each other row.
pivot_step(W, k, p, n) ==
    LET swapped == [W EXCEPT ![k] = W[p], ![p] = W[k]]
        pivot == swapped[k][k]
        scaled == collect([j \in 1 .. 2 * n |-> QDiv(swapped[k][j], pivot)])
    IN  collect([r \in 1 .. n |->
            IF r = k THEN scaled
            ELSE collect([j \in 1 .. 2 * n |->
                     QSub(swapped[r][j], QMul(swapped[r][k], scaled[j]))])])

\* Step 2: the pivot columns k .. n in turn; a zero pivot is a miss.
RECURSIVE eliminate(_, _, _)
eliminate(W, k, n) ==
    IF k > n THEN [kind |-> "Some", W |-> W]
    ELSE LET p == pivot_row(W, k, n)
         IN  IF W[p][k] = QZero THEN [kind |-> "None", W |-> W]
             ELSE eliminate(pivot_step(W, k, p, n), k + 1, n)

\* Step 3: the right half of W.
right_half(W, n) ==
    DynMatrix(n, n, [x \in 1 .. n * n |-> W[((x - 1) \div n) + 1][n + ((x - 1) % n) + 1]])

\* The elimination from the working copy W0.
inverse_of(a, W0) ==
    LET n == a.row_size
        e == eliminate(W0, 1, n)
    IN  IF e.kind = "None" THEN DynRet("None", NoDyn)
        ELSE DynRet("Some", right_half(e.W, n))

\* Step 2 without the pivot search: the pivot is always W[k, k].
RECURSIVE eliminate_unpivoted(_, _, _)
eliminate_unpivoted(W, k, n) ==
    IF k > n THEN [kind |-> "Some", W |-> W]
    ELSE IF W[k][k] = QZero THEN [kind |-> "None", W |-> W]
    ELSE eliminate_unpivoted(pivot_step(W, k, k, n), k + 1, n)

\* inverse without partial pivoting.
inverse_unpivoted(a) ==
    LET n == a.row_size
        e == eliminate_unpivoted(augmented(a), 1, n)
    IN  IF e.kind = "None" THEN DynRet("None", NoDyn)
        ELSE DynRet("Some", right_half(e.W, n))

\* Matrix::inverse.
inverse(a) == inverse_of(a, augmented(a))

\* -------------------------------------------------------- activations
\* src/src/activation.rs.  relu, leaky_relu and relu_backward are modelled on
\* the ordered element type T = i8.

\* tests::test_relu: a buffer of alternating sign, 1, -2, 3, -4, ..
alternating(n) == [i \in 1 .. n |-> IF i % 2 = 1 THEN i ELSE -i]

\* The buffers handed to the activations, n elements each.
ActData(n) == DynData(n) \cup {alternating(n)}

\* The well-formed matrices handed to the activations, zero extents included.
ActMatrices ==
    UNION {{DynMatrix(r, c, d) : d \in ActData(r * c)} :
               r \in 0 .. MaxRows, c \in 0 .. MaxCols}

\* The alpha handed to leaky_relu.
Alphas == {-1, 2}

\* The result of an element-wise map: the input's shape around the new data.
Mapped(a, data) ==
    IF \E i \in 1 .. Len(data) : data[i] = Trap THEN DynPanic
    ELSE DynRet("Matrix", DynMatrix(a.row_size, a.col_size, data))

\* relu with its comparison the wrong way round: x > T::default().
relu_flipped(a) ==
    Mapped(a, [i \in 1 .. Len(a.data) |->
                  IF a.data[i] > DefaultT THEN DefaultT ELSE a.data[i]])

\* Matrix::relu.
relu(a) ==
    Mapped(a, [i \in 1 .. Len(a.data) |->
                  IF a.data[i] < DefaultT THEN DefaultT ELSE a.data[i]])

\* Matrix::leaky_relu.
leaky_relu(a, alpha) ==
    Mapped(a, [i \in 1 .. Len(a.data) |->
                  IF a.data[i] < DefaultT THEN MulT(a.data[i], alpha) ELSE a.data[i]])

\* Matrix::relu_backward.
relu_backward(a) ==
    Mapped(a, [i \in 1 .. Len(a.data) |->
                  IF a.data[i] >= DefaultT THEN AddT(DefaultT, 1) ELSE DefaultT])

\* gelu and softmax need T: From<f64> + Into<f64>, which of the Numeric types
\* only f64 is.  An f64 is its class and, when finite, the rational it
\* stands for.
Finite(q) == [cls |-> "finite", q |-> q]
INFINITY == [cls |-> "inf", q |-> QZero]
NEG_INFINITY == [cls |-> "-inf", q |-> QZero]
NAN == [cls |-> "NaN", q |-> QZero]

IsFinite(x) == x.cls = "finite"
IsNaN(x) == x.cls = "NaN"

\* f64::max: a NaN operand is ignored.
f64_max(x, y) ==
    IF IsNaN(x) THEN y
    ELSE IF IsNaN(y) THEN x
    ELSE IF x.cls = "inf" \/ y.cls = "-inf" THEN x
    ELSE IF y.cls = "inf" \/ x.cls = "-inf" THEN y
    ELSE IF QLess(x.q, y.q) THEN y ELSE x

\* The negation of an f64.
f64_neg(x) ==
    IF x.cls = "inf" THEN NEG_INFINITY
    ELSE IF x.cls = "-inf" THEN INFINITY
    ELSE IF IsNaN(x) THEN NAN
    ELSE Finite(QSub(QZero, x.q))

\* f64 + f64: an infinity absorbs a finite operand; inf + -inf is NaN.
f64_add(x, y) ==
    IF IsNaN(x) \/ IsNaN(y) THEN NAN
    ELSE IF IsFinite(x) /\ IsFinite(y) THEN Finite(QAdd(x.q, y.q))
    ELSE IF IsFinite(x) THEN y
    ELSE IF IsFinite(y) THEN x
    ELSE IF x.cls = y.cls THEN x ELSE NAN

\* f64 - f64.
f64_sub(x, y) == f64_add(x, f64_neg(y))

\* f64 / f64 for a dividend that is not negative, as softmax's are:
\* 0/0 and inf/inf are NaN, x/0 is inf, x/inf is 0.
f64_div(x, y) ==
    IF IsNaN(x) \/ IsNaN(y) THEN NAN
    ELSE IF IsFinite(x) /\ IsFinite(y)
    THEN IF y.q # QZero THEN Finite(QDiv(x.q, y.q))
         ELSE IF x.q = QZero THEN NAN ELSE INFINITY
    ELSE IF IsFinite(x) THEN Finite(QZero)
    ELSE IF IsFinite(y) THEN x
    ELSE NAN

\* The rational that stands for e in the model of exp.
EulerQ == Q(19, 7)

RECURSIVE QPow(_, _)
QPow(q, n) == IF n = 0 THEN QOne ELSE QMul(q, QPow(q, n - 1))

\* f64::exp on the integers: exp(n) is e^n, exp(-inf) is 0, exp(inf) is inf.
exp(x) ==
    IF IsNaN(x) THEN NAN
    ELSE IF x.cls = "inf" THEN INFINITY
    ELSE IF x.cls = "-inf" THEN Finite(QZero)
    ELSE LET n == x.q[1]
         IN  IF n >= 0 THEN Finite(QPow(EulerQ, n))
             ELSE Finite(QDiv(QOne, QPow(EulerQ, -n)))

\* The f64 buffers handed to gelu and softmax, n elements each: finite ones
\* (zeros; 0, 1, 2, 0, ..; 1, -2, 1, -2, ..) and ones whose first element is
\* an infinity or a NaN.
cycle(i) == (i - 1) % 3
signs(i) == IF i % 2 = 1 THEN 1 ELSE -2

FiniteData(n) ==
    {[i \in 1 .. n |-> Finite(as_f64(0))],
     [i \in 1 .. n |-> Finite(as_f64(cycle(i)))],
     [i \in 1 .. n |-> Finite(as_f64(signs(i)))]}

F64Data(n) ==
    FiniteData(n) \cup
    {[i \in 1 .. n |-> IF i = 1 THEN INFINITY ELSE Finite(as_f64(cycle(i)))],
     [i \in 1 .. n |-> IF i = 1 THEN NEG_INFINITY ELSE Finite(as_f64(cycle(i)))],
     [i \in 1 .. n |-> IF i = 1 THEN NAN ELSE Finite(as_f64(cycle(i)))]}

FiniteMatrices ==
    UNION {{DynMatrix(r, c, d) : d \in FiniteData(r * c)} :
               r \in 0 .. MaxRows, c \in 0 .. MaxCols}

\* A struct literal's fields are whatever it spells: a buffer one element
\* longer than row_size * col_size is among the matrices handed to softmax.
F64Matrices ==
    UNION {{DynMatrix(r, c, d) : d \in F64Data(r * c) \cup FiniteData(r * c + 1)} :
               r \in 0 .. MaxRows, c \in 0 .. MaxCols}

\* The cubic coefficient in gelu's source.
GeluCoefficient == Q(4715, 100000)

\* One element of gelu: 0.5 * x * (1.0 + ((2.0 / PI).sqrt() * cubic).tanh())
\* with cubic = x + 0.04715 * x.powi(3).  tanh and the square root of 2 / PI
\* have no rational value: the element is kept as the pair of x and cubic it
\* is a function of.
gelu_elem(x) ==
    [x |-> x, cubic |-> QAdd(x, QMul(GeluCoefficient, QMul(x, QMul(x, x))))]

\* Matrix::gelu.
gelu(a) ==
    DynRet("Matrix", DynMatrix(a.row_size, a.col_size,
                               [i \in 1 .. Len(a.data) |-> gelu_elem(a.data[i].q)]))

\* Iterator::fold over a row with f64::max, and Iterator::sum.
RECURSIVE fold_max(_, _)
fold_max(acc, xs) == IF xs = <<>> THEN acc ELSE fold_max(f64_max(acc, Head(xs)), Tail(xs))

RECURSIVE sum(_, _)
sum(acc, xs) == IF xs = <<>> THEN acc ELSE sum(f64_add(acc, Head(xs)), Tail(xs))

\* The closure softmax maps over each chunk.
softmax_row(row) ==
    LET max == fold_max(NEG_INFINITY, row)
        exps == [i \in 1 .. Len(row) |-> exp(f64_sub(row[i], max))]
        denominator == sum(Finite(QZero), exps)
    IN  [i \in 1 .. Len(row) |-> f64_div(exps[i], denominator)]

\* slice::chunks(chunk_size) for chunk_size > 0: the last chunk may be short.
chunks(data, chunk_size) ==
    [k \in 1 .. (Len(data) + chunk_size - 1) \div chunk_size |->
        SubSeq(data, (k - 1) * chunk_size + 1, Min(k * chunk_size, Len(data)))]

\* softmax over chunks of chunk_size elements.  assert_eq! panics on a buffer
\* whose length is not row_size * col_size; slice::chunks panics on a chunk
\* size of 0.
softmax_chunked(a, chunk_size) ==
    IF a.row_size * a.col_size # Len(a.data) THEN DynPanic
    ELSE IF chunk_size = 0 THEN DynPanic
    ELSE LET rows == chunks(a.data, chunk_size)
         IN  DynRet("Matrix",
                    DynMatrix(a.row_size, a.col_size,
                              Flatten([k \in 1 .. Len(rows) |-> softmax_row(rows[k])])))

\* softmax with its chunks as long as a column: self.data.chunks(self.row_size).
softmax_by_columns(a) == softmax_chunked(a, a.row_size)

\* Matrix::softmax.
softmax(a) == softmax_chunked(a, a.col_size)

\* ------------------------------------------------------------ actions
\* The record of a call: its name, its index and value arguments, the
\* buffers of self and rhs before it, and its result.
Call(op, row, col, val, self, rhs, ret) ==
    [op |-> op, row |-> row, col |-> col, val |-> val,
     self |-> self, rhs |-> rhs, ret |-> ret]

\* A panic unwinds the program: nothing runs after it.
Running == last.ret.kind # "panic" /\ m.live

\* The calls that take &self and return a value without writing anything.
Reads == {"get", "get_diagonal", "try_get_row", "try_get_column"}

\* A run is the calls that build the matrix followed by one call that reads
\* it.  A read changes nothing but the record of the last call, so the calls
\* that could follow it reach no state that the same calls without it do not.
Building == Running /\ last.op \notin Reads

\* The binding after a call that returns a matrix: the matrix, or nothing
\* when the call panicked.
Bind(ret) == IF ret.kind = "Matrix" THEN Live(ret.val) ELSE Moved

Init ==
    /\ R \in 0 .. MaxRows
    /\ C \in 0 .. MaxCols
    /\ overflow_checks \in BOOLEAN
    /\ m = Live(new)
    /\ last = Call("new", 0, 0, 0, <<>>, <<>>, Matrix(new))
    /\ steps = 0
    /\ dyn = [op |-> "none", a |-> NoDyn, b |-> NoDyn, ret |-> DynRet("none", NoDyn)]

\* let m = Matrix::new();
New ==
    /\ Building
    /\ m' = Live(new)
    /\ last' = Call("new", 0, 0, 0, <<>>, <<>>, Matrix(new))
    /\ UNCHANGED <<dyn, R, C, overflow_checks, steps>>

\* let mut m = Matrix::new(); for i in 0..m.data.len() { m.data[i] = i }
Fill ==
    /\ Building
    /\ steps < MaxSteps
    /\ m' = Live(fill)
    /\ last' = Call("fill", 0, 0, 0, <<>>, <<>>, Matrix(fill))
    /\ steps' = steps + 1
    /\ UNCHANGED <<dyn, R, C, overflow_checks>>

\* m.get(row, col)
Get(row, col) ==
    /\ Building
    /\ last' = Call("get", row, col, 0, m.data, <<>>, get(m.data, row, col))
    /\ UNCHANGED <<dyn, R, C, overflow_checks, m, steps>>

\* m.get_diagonal()
GetDiagonal ==
    /\ Building
    /\ last' = Call("get_diagonal", 0, 0, 0, m.data, <<>>, get_diagonal(m.data))
    /\ UNCHANGED <<dyn, R, C, overflow_checks, m, steps>>

\* m.set(row, col, value)
Set(row, col, value) ==
    /\ Building
    /\ steps < MaxSteps
    /\ LET r == set(m.data, row, col, value)
       IN  /\ m' = IF r.ret.kind = "panic" THEN Moved ELSE Live(r.data)
           /\ last' = Call("set", row, col, value, m.data, <<>>, r.ret)
    /\ steps' = steps + 1
    /\ UNCHANGED <<dyn, R, C, overflow_checks>>

\* let m = m.transpose();
Transpose ==
    /\ Building
    /\ LET r == transpose(m.data)
       IN  /\ m' = Bind(r)
           /\ last' = Call("transpose", 0, 0, 0, m.data, <<>>, r)
    /\ UNCHANGED <<dyn, R, C, overflow_checks, steps>>

\* let m = m + rhs;   (self and rhs are moved into the call)
Add(rhs) ==
    /\ Building
    /\ steps < MaxSteps
    /\ LET r == add(m.data, rhs)
       IN  /\ m' = Bind(r)
           /\ last' = Call("add", 0, 0, 0, m.data, rhs, r)
    /\ steps' = steps + 1
    /\ UNCHANGED <<dyn, R, C, overflow_checks>>

\* let m = m - rhs;
Sub(rhs) ==
    /\ Building
    /\ steps < MaxSteps
    /\ LET r == sub(m.data, rhs)
       IN  /\ m' = Bind(r)
           /\ last' = Call("sub", 0, 0, 0, m.data, rhs, r)
    /\ steps' = steps + 1
    /\ UNCHANGED <<dyn, R, C, overflow_checks>>

\* let m = m.scalar_multiply(scalar);
ScalarMultiply(scalar) ==
    /\ Building
    /\ steps < MaxSteps
    /\ LET r == scalar_multiply(m.data, scalar)
       IN  /\ m' = Bind(r)
           /\ last' = Call("scalar_multiply", 0, 0, scalar, m.data, <<>>, r)
    /\ steps' = steps + 1
    /\ UNCHANGED <<dyn, R, C, overflow_checks>>

\* The indices handed to get and set: in range and out of range.
RowIndices == 0 .. MaxRows
ColIndices == 0 .. MaxCols

Next ==
    \/ New
    \/ Fill
    \/ \E row \in RowIndices, col \in ColIndices : Get(row, col)
    \/ GetDiagonal
    \/ \E row \in RowIndices, col \in ColIndices, value \in Vals : Set(row, col, value)
    \/ Transpose
    \/ \E rhs \in Operands : Add(rhs)
    \/ \E rhs \in Operands : Sub(rhs)
    \/ \E scalar \in Scalars : ScalarMultiply(scalar)

Spec == Init /\ [][Next]_vars

\* let m = Matrix::<T, R, C> { data: vec![..] };
Literal(data) ==
    /\ Building
    /\ m' = Live(data)
    /\ last' = Call("literal", 0, 0, 0, <<>>, <<>>, Matrix(data))
    /\ UNCHANGED <<dyn, R, C, overflow_checks, steps>>

\* The programs that build their matrices as struct literals and add and
\* subtract them.
NextLit ==
    \/ \E data \in Literals : Literal(data)
    \/ \E rhs \in Literals : Add(rhs)
    \/ \E rhs \in Literals : Sub(rhs)

SpecLit == Init /\ [][NextLit]_vars

\* m.try_get_row(row)
TryGetRow(row) ==
    /\ Building
    /\ last' = Call("try_get_row", row, 0, 0, m.data, <<>>, try_get_row(m.data, row))
    /\ UNCHANGED <<dyn, R, C, overflow_checks, m, steps>>

\* m.try_get_column(column)
TryGetColumn(column) ==
    /\ Building
    /\ last' = Call("try_get_column", 0, column, 0, m.data, <<>>,
                    try_get_column(m.data, column))
    /\ UNCHANGED <<dyn, R, C, overflow_checks, m, steps>>

\* The programs that build a matrix with the fill loop and set and then read
\* one of its rows or columns.
NextRows ==
    \/ Fill
    \/ \E row \in RowIndices, col \in ColIndices, value \in Vals : Set(row, col, value)
    \/ \E row \in RowIndices : TryGetRow(row)
    \/ \E column \in ColIndices : TryGetColumn(column)

SpecRows == Init /\ [][NextRows]_vars

\* Two programs over the same operands, each run on its own, so that a panic
\* in one does not keep the other from running:
\*   Matrix { data: m.data.clone() } + rhs, then .scalar_multiply(scalar);
\*   m.scalar_multiply(scalar) + rhs.scalar_multiply(scalar).
Distribute(rhs, scalar) ==
    /\ Building
    /\ last.op # "distribute"
    /\ last' = Call("distribute", 0, 0, scalar, m.data, rhs,
                    Ret("pair", <<scale_of_sum(m.data, rhs, scalar),
                                  sum_of_scaled(m.data, rhs, scalar)>>))
    /\ UNCHANGED <<dyn, R, C, overflow_checks, m, steps>>

\* The programs that build a matrix with the fill loop and set and then
\* evaluate both sides of the distributive law on it.
NextLaw ==
    \/ Fill
    \/ \E row \in RowIndices, col \in ColIndices, value \in Vals : Set(row, col, value)
    \/ \E rhs \in Operands, scalar \in Scalars : Distribute(rhs, scalar)

SpecLaw == Init /\ [][NextLaw]_vars

\* The programs that work on runtime-shaped matrices hold no Matrix<T, R, C>.
InitDyn ==
    /\ R = 0
    /\ C = 0
    /\ overflow_checks \in BOOLEAN
    /\ m = Moved
    /\ last = Call("none", 0, 0, 0, <<>>, <<>>, None)
    /\ steps = 0
    /\ dyn = [op |-> "none", a |-> NoDyn, b |-> NoDyn, ret |-> DynRet("none", NoDyn)]

\* The calls on a Matrix<T> borrow their operands and return a fresh value:
\* no call depends on an earlier one, so a run is one call.
Idle == dyn.op = "none"

\* a.multiply(&b)
Multiply(a, b) ==
    /\ Idle
    /\ dyn' = [op |-> "multiply", a |-> a, b |-> b, ret |-> multiply(a, b)]
    /\ UNCHANGED <<R, C, overflow_checks, m, last, steps>>

\* a.inverse()
Inverse(a) ==
    /\ Idle
    /\ dyn' = [op |-> "inverse", a |-> a, b |-> NoDyn, ret |-> inverse(a)]
    /\ UNCHANGED <<R, C, overflow_checks, m, last, steps>>

NextDyn ==
    \/ Idle /\ \E a \in DynMatrices, b \in DynMatrices : Multiply(a, b)
    \/ Idle /\ \E a \in InvMatrices : Inverse(a)

SpecDyn == InitDyn /\ [][NextDyn]_vars

\* a.relu()
Relu(a) ==
    /\ Idle
    /\ dyn' = [op |-> "relu", a |-> a, b |-> NoDyn, ret |-> relu(a)]
    /\ UNCHANGED <<R, C, overflow_checks, m, last, steps>>

\* a.leaky_relu(alpha)
LeakyRelu(a, alpha) ==
    /\ Idle
    /\ dyn' = [op |-> "leaky_relu", a |-> a, b |-> NoDyn, alpha |-> alpha,
               ret |-> leaky_relu(a, alpha)]
    /\ UNCHANGED <<R, C, overflow_checks, m, last, steps>>

\* a.relu_backward()
ReluBackward(a) ==
    /\ Idle
    /\ dyn' = [op |-> "relu_backward", a |-> a, b |-> NoDyn, ret |-> relu_backward(a)]
    /\ UNCHANGED <<R, C, overflow_checks, m, last, steps>>

\* a.gelu()
Gelu(a) ==
    /\ Idle
    /\ dyn' = [op |-> "gelu", a |-> a, b |-> NoDyn, ret |-> gelu(a)]
    /\ UNCHANGED <<R, C, overflow_checks, m, last, steps>>

\* a.softmax()
Softmax(a) ==
    /\ Idle
    /\ dyn' = [op |-> "softmax", a |-> a, b |-> NoDyn, ret |-> softmax(a)]
    /\ UNCHANGED <<R, C, overflow_checks, m, last, steps>>

\* The programs that apply one activation to one matrix.
NextAct ==
    \/ Idle /\ \E a \in ActMatrices : Relu(a)
    \/ Idle /\ \E a \in ActMatrices, alpha \in Alphas : LeakyRelu(a, alpha)
    \/ Idle /\ \E a \in ActMatrices : ReluBackward(a)
    \/ Idle /\ \E a \in FiniteMatrices : Gelu(a)
    \/ Idle /\ \E a \in F64Matrices : Softmax(a)

SpecAct == InitDyn /\ [][NextAct]_vars

\* --------------------------------------------------------------- claims
\* The linear index of (row, col) in a row-major R x C buffer.
Lin(row, col) == row * C + col

\* C1: in every state reachable from new() through set, transpose, add, sub
\* and scalar_multiply, the data buffer of every matrix that exists has
\* length exactly rows * cols.
C1_DataLength == m.live => Len(m.data) = R * C

\* A non-square matrix that was written and then transposed.
C1_Witness ==
    /\ m.live /\ last.op = "transpose" /\ R = 2 /\ C = 3
    /\ steps = MaxSteps /\ Len(m.data) = 6

\* C2: get(row, col) is a miss exactly when row >= R or col >= C, and
\* otherwise the element at linear index row * C + col; it never reads
\* outside the buffer.
C2_Get ==
    last.op = "get" =>
        /\ last.ret.kind \in {"None", "Some"}
        /\ last.ret.kind = "None" <=> (last.row >= R \/ last.col >= C)
        /\ last.ret.kind = "Some" =>
              /\ InBuf(last.self, Lin(last.row, last.col))
              /\ last.ret.val = <<At(last.self, Lin(last.row, last.col))>>

\* get hit the last cell of a filled 2 x 3 matrix.
C2_Witness ==
    /\ last.op = "get" /\ R = 2 /\ C = 3 /\ last.row = 1 /\ last.col = 2
    /\ last.self = fill /\ last.ret = Some(<<5>>)

\* C3: for an in-range position, set(row, col, v) returns true, a following
\* get(row, col) returns v, and every other position holds the value it held
\* before the call.
C3_SetInRange ==
    (last.op = "set" /\ last.row < R /\ last.col < C) =>
        /\ last.ret.kind = "true"
        /\ m.live
        /\ get(m.data, last.row, last.col) = Some(<<last.val>>)
        /\ \A r \in RowIndices, c \in ColIndices :
              <<r, c>> # <<last.row, last.col>> =>
                  get(m.data, r, c) = get(last.self, r, c)

\* set wrote the last cell of a filled 2 x 3 matrix.
C3_Witness ==
    /\ last.op = "set" /\ R = 2 /\ C = 3 /\ last.row = 1 /\ last.col = 2
    /\ last.self = fill /\ last.ret.kind = "true"
    /\ m.data = <<0, 1, 2, 3, 4, MaxT>>

\* C4: for a position with row >= R or col >= C, set returns false and
\* leaves the whole buffer unchanged; it does not panic.
C4_SetOutOfRange ==
    (last.op = "set" /\ (last.row >= R \/ last.col >= C)) =>
        /\ last.ret.kind = "false"
        /\ m = Live(last.self)

\* set missed with only the column out of range, where col + row * C is
\* still an index of the buffer.
C4_Witness ==
    /\ last.op = "set" /\ R = 2 /\ C = 2 /\ last.row = 0 /\ last.col = 2
    /\ last.self = fill /\ last.ret.kind = "false" /\ m.data = fill

\* C5: transpose of an R x C matrix returns a matrix of shape (C, R) whose
\* element (j, i), read through get on the result, is the input's element
\* (i, j), non-square inputs included.
C5_Transpose ==
    last.op = "transpose" =>
        /\ last.ret.kind = "Matrix"
        /\ transpose_shape = <<C, R>>
        /\ \A i \in 0 .. R - 1, j \in 0 .. C - 1 :
              get(last.ret.val, j, i) = Some(<<At(last.self, Lin(i, j))>>)

\* A filled 2 x 3 matrix was transposed.
C5_Witness ==
    /\ last.op = "transpose" /\ R = 2 /\ C = 3 /\ last.self = fill
    /\ last.ret = Matrix(<<0, 3, 1, 4, 2, 5>>)

\* C6: transpose(transpose(A)) equals A, same shape and same buffer, for
\* every matrix A, square or not.
C6_TransposeTwice ==
    [][(last.op = "transpose" /\ last'.op = "transpose") =>
           (m'.live /\ m'.data = last.self)]_vars

\* A filled 2 x 3 matrix was transposed twice.
C6_Witness ==
    /\ last.op = "transpose" /\ R = 2 /\ C = 3
    /\ last.self = <<0, 3, 1, 4, 2, 5>> /\ m.live

\* C7: for every R x C matrix, R < C and R > C included, get_diagonal
\* returns without panicking exactly the min(R, C) elements at (k, k),
\* k ascending.
C7_Diagonal ==
    last.op = "get_diagonal" =>
        /\ last.ret.kind = "Vec"
        /\ Len(last.ret.val) = Min(R, C)
        /\ \A k \in 0 .. Min(R, C) - 1 :
              last.ret.val[k + 1] = At(last.self, Lin(k, k))

\* The diagonal of a filled 2 x 3 matrix (R < C).
C7_Witness ==
    /\ last.op = "get_diagonal" /\ R = 2 /\ C = 3 /\ last.self = fill
    /\ last.ret = Ret("Vec", <<0, 4>>)

\* C8: for A and B of the same shape R x C, add(A, B) and sub(A, B) return a
\* matrix of shape R x C whose element at every (r, c) is A[r, c] + B[r, c],
\* respectively A[r, c] - B[r, c], in row-major order; + and - are the
\* element type's, so where one of them traps the call traps.
C8_AddSub ==
    last.op \in {"add", "sub"} =>
        LET Want(r, c) ==
                IF last.op = "add"
                THEN AddT(At(last.self, Lin(r, c)), At(last.rhs, Lin(r, c)))
                ELSE SubT(At(last.self, Lin(r, c)), At(last.rhs, Lin(r, c)))
        IN  IF \E r \in 0 .. R - 1, c \in 0 .. C - 1 : Want(r, c) = Trap
            THEN last.ret = Panic
            ELSE /\ last.ret.kind = "Matrix"
                 /\ Len(last.ret.val) = R * C
                 /\ \A r \in 0 .. R - 1, c \in 0 .. C - 1 :
                       get(last.ret.val, r, c) = Some(<<Want(r, c)>>)

\* sub returned the difference of two distinct 2 x 3 matrices.
C8_Witness ==
    /\ last.op = "sub" /\ R = 2 /\ C = 3
    /\ last.self = splat(MaxT) /\ last.rhs = fill
    /\ last.ret = Matrix(<<127, 126, 125, 124, 123, 122>>)

\* C9: add and sub called with matrices whose shapes differ, operands whose
\* buffers differ in length included, fail with a ShapeMismatch error
\* returned to the caller; they neither panic nor return a matrix.
C9_ShapeMismatch ==
    (last.op \in {"add", "sub"} /\ Len(last.self) # Len(last.rhs)) =>
        last.ret.kind = "ShapeMismatch"

\* add of a well-formed 2 x 3 matrix and one whose buffer is one short.
C9_Witness ==
    /\ last.op = "add" /\ R = 2 /\ C = 3
    /\ Len(last.self) = 6 /\ Len(last.rhs) = 5 /\ last.ret = Panic

\* The sum of the first n products a[i, k] * b[k, j], in the integers.
RECURSIVE PrefixDot(_, _, _, _, _)
PrefixDot(a, b, i, j, n) ==
    IF n = 0 THEN 0
    ELSE PrefixDot(a, b, i, j, n - 1) + Elem(a, i, n - 1) * Elem(b, n - 1, j)

\* C10: multiply(a, b) fails with ShapeMismatch exactly when a.cols # b.rows;
\* otherwise it returns a matrix of shape (a.rows, b.cols) whose element
\* (i, j) is the sum over k ascending of a[i, k] * b[k, j], from the additive
\* identity; * and + are the element type's, so where a product or a partial
\* sum traps the call traps.
C10_Multiply ==
    dyn.op = "multiply" =>
        LET a == dyn.a
            b == dyn.b
            Traps(i, j) ==
                \E n \in 1 .. a.col_size :
                    \/ ~InT(Elem(a, i, n - 1) * Elem(b, n - 1, j))
                    \/ ~InT(PrefixDot(a, b, i, j, n))
        IN  /\ dyn.ret.kind = "ShapeMismatch" <=> a.col_size # b.row_size
            /\ a.col_size = b.row_size =>
                 IF /\ overflow_checks
                    /\ \E i \in 0 .. a.row_size - 1, j \in 0 .. b.col_size - 1 : Traps(i, j)
                 THEN dyn.ret = DynPanic
                 ELSE /\ dyn.ret.kind = "Matrix"
                      /\ dyn.ret.matrix.row_size = a.row_size
                      /\ dyn.ret.matrix.col_size = b.col_size
                      /\ Len(dyn.ret.matrix.data) = a.row_size * b.col_size
                      /\ \A i \in 0 .. a.row_size - 1, j \in 0 .. b.col_size - 1 :
                            Elem(dyn.ret.matrix, i, j)
                                = WrapT(PrefixDot(a, b, i, j, a.col_size))

\* A 2 x 2 by 2 x 3 product of non-zero matrices.
C10_Witness ==
    /\ dyn.op = "multiply"
    /\ dyn.a = DynMatrix(2, 2, iota(4)) /\ dyn.b = DynMatrix(2, 3, iota(6))
    /\ dyn.ret = DynRet("Matrix", DynMatrix(2, 3, <<9, 12, 15, 19, 26, 33>>))

\* The determinant of the n x n matrix a, by expansion along the first row;
\* rows is the sequence of row indices left and cols the set of columns left.
RECURSIVE Det(_, _, _)
Det(a, rows, cols) ==
    IF rows = <<>> THEN 1
    ELSE LET Sign(c) == IF Cardinality({d \in cols : d < c}) % 2 = 0 THEN 1 ELSE -1
             Term(c) == Sign(c) * Elem(a, Head(rows), c) * Det(a, Tail(rows), cols \ {c})
             Sum[S \in SUBSET cols] ==
                 IF S = {} THEN 0
                 ELSE LET c == CHOOSE x \in S : TRUE IN Term(c) + Sum[S \ {c}]
         IN  Sum[cols]

Determinant(a) ==
    Det(a, [i \in 1 .. a.row_size |-> i - 1], 0 .. a.col_size - 1)

\* Element (i, j) of the product of a and the matrix x of doubles.
ProductElem(a, x, i, j) ==
    LET n == a.row_size
        Sum[k \in 0 .. n] ==
            IF k = 0 THEN QZero
            ELSE QAdd(Sum[k - 1], QMul(as_f64(Elem(a, i, k - 1)), Elem(x, k - 1, j)))
    IN  Sum[n]

\* C11: for every square n x n matrix A, n >= 1, inverse(A) is a miss when A
\* is singular and the multiplicative inverse of A otherwise; singular input
\* is its only failure.
C11_Inverse ==
    dyn.op = "inverse" =>
        LET a == dyn.a
            n == a.row_size
        IN  /\ dyn.ret.kind \in {"None", "Some"}
            /\ dyn.ret.kind = "None" <=> Determinant(a) = 0
            /\ dyn.ret.kind = "Some" =>
                  /\ dyn.ret.matrix.row_size = n
                  /\ dyn.ret.matrix.col_size = n
                  /\ Len(dyn.ret.matrix.data) = n * n
                  /\ \A i \in 0 .. n - 1, j \in 0 .. n - 1 :
                        ProductElem(a, dyn.ret.matrix, i, j)
                            = IF i = j THEN QOne ELSE QZero

\* The inverse of a matrix whose first pivot has to be swapped in.
C11_Witness ==
    /\ dyn.op = "inverse"
    /\ dyn.a = DynMatrix(2, 2, <<0, 1, -2, 1>>)
    /\ dyn.ret = DynRet("Some", DynMatrix(2, 2, <<<<1, 2>>, <<-1, 2>>, <<1, 1>>, <<0, 1>>>>))

\* C12 as stated: for all same-shape integer matrices A and B and every
\* scalar s, scalar_multiply(A + B, s) and scalar_multiply(A, s) +
\* scalar_multiply(B, s) have the same outcome: the same elements, or an
\* overflow on both sides.
C12_DistributesAlways ==
    last.op = "distribute" => last.ret.val[1] = last.ret.val[2]

\* C12, amended: whenever neither side overflows the two sides are equal
\* element for element, and in a build whose overflow wraps both sides return
\* and are equal; in a build whose overflow traps one side can panic where the
\* other returns.
C12_Distributes ==
    last.op = "distribute" =>
        LET lhs == last.ret.val[1]
            rhs == last.ret.val[2]
        IN  /\ lhs.kind = "Matrix" /\ rhs.kind = "Matrix" =>
                   /\ Len(lhs.val) = R * C
                   /\ \A i \in 1 .. R * C : lhs.val[i] = rhs.val[i]
            /\ ~overflow_checks =>
                   lhs.kind = "Matrix" /\ rhs.kind = "Matrix"

\* Both sides return, with elements that are neither zero nor all alike.
C12_Witness ==
    /\ last.op = "distribute" /\ R = 2 /\ C = 3
    /\ last.self = <<0, 1, 2, 3, 4, 5>> /\ last.rhs = <<0, 1, 2, 3, 4, 5>>
    /\ last.val = -1
    /\ last.ret.val[1] = Matrix(<<0, -2, -4, -6, -8, -10>>)
    /\ last.ret.val[2] = Matrix(<<0, -2, -4, -6, -8, -10>>)

C14_RowColumn ==
    /\ last.op = "try_get_row" =>
          /\ last.ret = None <=> last.row >= R
          /\ last.row < R =>
                /\ last.ret.kind = "Some"
                /\ Len(last.ret.val) = C
                /\ \A k \in 0 .. C - 1 :
                      At(last.ret.val, k) = At(last.self, last.row * C + k)
    /\ last.op = "try_get_column" =>
          /\ last.ret = None <=> last.col >= C
          /\ last.col < C =>
                /\ last.ret.kind = "Some"
                /\ Len(last.ret.val) = R
                /\ \A r \in 0 .. R - 1 :
                      At(last.ret.val, r) = At(last.self, r * C + last.col)

\* The middle column of a filled 2 x 3 matrix.
C14_Witness ==
    /\ last.op = "try_get_column" /\ R = 2 /\ C = 3 /\ last.col = 1
    /\ last.self = <<0, 1, 2, 3, 4, 5>>
    /\ last.ret = Some(<<1, 4>>)

\* Row r of a Matrix<f64>, 0-indexed.
RowOf(a, r) == SubSeq(a.data, r * a.col_size + 1, (r + 1) * a.col_size)

\* The row sums to 1 and each of its elements lies in [0, 1].
Stochastic(row) ==
    /\ sum(Finite(QZero), row) = Finite(QOne)
    /\ \A i \in 1 .. Len(row) :
          /\ IsFinite(row[i])
          /\ ~QLess(row[i].q, QZero)
          /\ ~QLess(QOne, row[i].q)

\* The softmax of every well-formed matrix in Domain with at least one column
\* is a matrix of the same shape whose rows are all stochastic.
RowStochastic(InDomain) ==
    dyn.op = "softmax" =>
        LET a == dyn.a
        IN  /\ Len(a.data) = a.row_size * a.col_size
            /\ a.col_size >= 1
            /\ InDomain
            => /\ dyn.ret.kind = "Matrix"
               /\ dyn.ret.matrix.row_size = a.row_size
               /\ dyn.ret.matrix.col_size = a.col_size
               /\ Len(dyn.ret.matrix.data) = Len(a.data)
               /\ \A r \in 0 .. a.row_size - 1 : Stochastic(RowOf(dyn.ret.matrix, r))

\* C15 as stated: for every matrix A with at least one column, every row of
\* softmax(A) sums to 1 and every element of softmax(A) lies in [0, 1].
C15_SoftmaxEveryMatrix == RowStochastic(TRUE)

\* C15, amended: for every matrix A with at least one column in which no
\* element is NaN or positive infinity and every row holds a finite element,
\* every row of softmax(A) sums to 1 and every element lies in [0, 1].  (The
\* sum is exact here: the model's doubles do not round.)
C15_Softmax ==
    RowStochastic(\A r \in 0 .. dyn.a.row_size - 1 :
                      LET row == RowOf(dyn.a, r)
                      IN  /\ \A i \in 1 .. Len(row) : row[i].cls \in {"finite", "-inf"}
                          /\ \E i \in 1 .. Len(row) : IsFinite(row[i]))

\* The softmax of a finite 2 x 3 matrix: two rows of three unequal shares.
C15_Witness ==
    /\ dyn.op = "softmax"
    /\ dyn.a = DynMatrix(2, 3, [i \in 1 .. 6 |-> Finite(as_f64(cycle(i)))])
    /\ dyn.ret.kind = "Matrix"
    /\ RowOf(dyn.ret.matrix, 1)
           = <<Finite(<<49, 543>>), Finite(<<133, 543>>), Finite(<<361, 543>>)>>

\* The standard cubic coefficient of the tanh approximation of GeLU.
StandardCoefficient == Q(44715, 1000000)

\* C16: gelu computes, for every element x,
\* 0.5 * x * (1 + tanh(sqrt(2/pi) * (x + 0.044715 * x^3))), with the standard
\* cubic coefficient 0.044715.
C16_GeluCoefficient ==
    dyn.op = "gelu" =>
        /\ dyn.ret.kind = "Matrix"
        /\ Len(dyn.ret.matrix.data) = Len(dyn.a.data)
        /\ \A i \in 1 .. Len(dyn.a.data) :
              LET x == dyn.a.data[i].q
              IN  dyn.ret.matrix.data[i]
                      = [x |-> x,
                         cubic |-> QAdd(x, QMul(StandardCoefficient, QMul(x, QMul(x, x))))]

\* gelu of the 1 x 1 matrix [1.0]: the argument of tanh is built from
\* 1.04715, not from 1.044715.
C16_Witness ==
    /\ dyn.op = "gelu"
    /\ dyn.a = DynMatrix(1, 1, <<Finite(as_f64(1))>>)
    /\ dyn.ret.matrix.data = <<[x |-> QOne, cubic |-> Q(104715, 100000)]>>

\* The five activations.
Activations == {"relu", "leaky_relu", "relu_backward", "gelu", "softmax"}

\* C17: for every matrix that satisfies data.length == rows * cols, matrices
\* with cols == 0 or rows == 0 included, each of relu, leaky_relu,
\* relu_backward, gelu and softmax returns, without panicking, a matrix with
\* the same row count, the same column count and rows * cols elements.
C17_ActivationsTotal ==
    dyn.op \in Activations /\ Len(dyn.a.data) = dyn.a.row_size * dyn.a.col_size =>
        /\ dyn.ret.kind = "Matrix"
        /\ dyn.ret.matrix.row_size = dyn.a.row_size
        /\ dyn.ret.matrix.col_size = dyn.a.col_size
        /\ Len(dyn.ret.matrix.data) = dyn.a.row_size * dyn.a.col_size

\* softmax of a matrix of two rows and no columns panics.
C17_Witness ==
    /\ dyn.op = "softmax"
    /\ dyn.a = DynMatrix(2, 0, <<>>)
    /\ dyn.ret = DynPanic

====
